---------------------------- MODULE Spec2Model ----------------------------
(***************************************************************************)
(* Multi-task trainer (ocpmodels/trainers/mt/trainer.py): the reduction    *)
(* engine, the loss coefficient resolver, the per-task loss aggregator and  *)
(* the output merger/validator.                                             *)
(*                                                                          *)
(* Tensors are functions from an index set to values.  A value is a         *)
(* rational [n |-> numerator, d |-> denominator] in lowest terms with       *)
(* d > 0; the IEEE results of a division by zero are kept apart from the    *)
(* finite values: d = 0 with n = 0 is NaN, d = 0 with n = 1 / -1 is +Inf /  *)
(* -Inf.  Rounding and overflow of finite floats are not modelled.          *)
(*                                                                          *)
(* State: self is the trainer object (its configuration), args the          *)
(* arguments of the call in progress, ret what the call returned or         *)
(* raised, log the warnings logged, pc the position of the call.            *)
(***************************************************************************)
EXTENDS Integers, Sequences, FiniteSets, TLC

VARIABLES self, args, ret, log, pc

vars == <<self, args, ret, log, pc>>

(***************************************************************************)
(* Bounds of the model.                                                     *)
(***************************************************************************)
\* Longest 1-d tensor handed to _safe_divide.
MaxLen == 2

\* Most elements (rows * columns) of a 2-d tensor drawn as an input.
MaxCells == 4

\* Most atoms of a batch.
MaxAtoms == 2

\* Most loss terms of self.loss_fns.
MaxTerms == 2

\* Most tasks of a configuration whose outputs are validated.
MaxTasks == 3

\* Most tasks of a configuration whose per-task outputs are merged.
MaxMergeTasks == 2

\* Examples of a training batch.
MaxBsz == 2

\* Training steps of a run.
MaxStep == 2

\* Batches of a validation pass.
MaxValBatches == 2

(***************************************************************************)
(* Values: floats as rationals, with NaN and the infinities.                *)
(***************************************************************************)
Abs(x) == IF x < 0 THEN -x ELSE x

Sgn(x) == IF x < 0 THEN -1 ELSE IF x = 0 THEN 0 ELSE 1

RECURSIVE GCD(_, _)
GCD(x, y) == IF y = 0 THEN x ELSE GCD(y, x % y)

\* n/d in lowest terms with a positive denominator (d # 0).
Norm(n, d) ==
    LET g == GCD(Abs(n), Abs(d))
    IN  [n |-> Sgn(d) * (n \div g), d |-> Abs(d) \div g]

R(k) == [n |-> k, d |-> 1]

NaN == [n |-> 0, d |-> 0]

Inf(s) == [n |-> s, d |-> 0]

IsFinite(x) == x.d # 0

IsNaN(x) == x.d = 0 /\ x.n = 0

\* x + y
RAdd(x, y) ==
    IF IsNaN(x) \/ IsNaN(y) THEN NaN
    ELSE IF ~IsFinite(x) /\ ~IsFinite(y) THEN (IF x.n = y.n THEN x ELSE NaN)
    ELSE IF ~IsFinite(x) THEN x
    ELSE IF ~IsFinite(y) THEN y
    ELSE Norm(x.n * y.d + y.n * x.d, x.d * y.d)

\* x * y
RMul(x, y) ==
    IF IsNaN(x) \/ IsNaN(y) THEN NaN
    ELSE IF ~IsFinite(x) \/ ~IsFinite(y)
         THEN (IF x.n = 0 \/ y.n = 0 THEN NaN ELSE Inf(Sgn(x.n) * Sgn(y.n)))
    ELSE Norm(x.n * y.n, x.d * y.d)

\* x / y: a finite x over zero is an infinity, 0/0 is NaN.
RDiv(x, y) ==
    IF IsNaN(x) \/ IsNaN(y) THEN NaN
    ELSE IF ~IsFinite(x) /\ ~IsFinite(y) THEN NaN
    ELSE IF ~IsFinite(x) THEN Inf(IF y.n < 0 THEN -x.n ELSE x.n)
    ELSE IF ~IsFinite(y) THEN R(0)
    ELSE IF y.n = 0 THEN Inf(Sgn(x.n))
    ELSE Norm(x.n * y.d, x.d * y.n)

\* Sum of the values of tensor f over the index set S.
RECURSIVE RSum(_, _)
RSum(f, S) ==
    IF S = {} THEN R(0)
    ELSE LET i == CHOOSE j \in S : TRUE
         IN  RAdd(f[i], RSum(f, S \ {i}))

(***************************************************************************)
(* Calls: what a call returned or raised.                                   *)
(***************************************************************************)
NoRet == [kind |-> "none"]

Return(v) == [kind |-> "return", value |-> v]

Raise(e) == [kind |-> "raise", exc |-> e]

(***************************************************************************)
(* _safe_divide(a, b)                                                       *)
(***************************************************************************)
\* Tensor.masked_fill(mask, value) with mask = (b == 0.0), value = 1.0.  It is
\* the out-of-place form: ret is the new tensor, this is the tensor b names
\* after the call.  (masked_fill_nothing: the fill left out.)
masked_fill_nothing(b) == [ret |-> b, this |-> b]

masked_fill(b) ==
    [ret |-> [i \in DOMAIN b |-> IF b[i] = R(0) THEN R(1) ELSE b[i]],
     this |-> b]

\* out: the tensor returned; b: the caller's tensor b after the call.
_safe_divide(a, b) ==
    LET m == masked_fill(b)
    IN  [out |-> [i \in DOMAIN a |-> RDiv(a[i], m.ret[i])], b |-> m.this]

(***************************************************************************)
(* Specification of _safe_divide: the inputs are drawn in Init.             *)
(***************************************************************************)
SafeDivideAVals == {-1, 0, 3}

SafeDivideBVals == {-2, 0, 1, 2}

NoSelf == [num_tasks |-> 0]

InitSafeDivide ==
    /\ self = NoSelf
    /\ \E n \in 1..MaxLen :
         \E a \in [0..n-1 -> SafeDivideAVals], b \in [0..n-1 -> SafeDivideBVals] :
            args = [fn |-> "_safe_divide",
                    a |-> [i \in 0..n-1 |-> R(a[i])],
                    b |-> [i \in 0..n-1 |-> R(b[i])],
                    b0 |-> [i \in 0..n-1 |-> R(b[i])]]
    /\ ret = NoRet
    /\ log = <<>>
    /\ pc = "call"

SafeDivideCall ==
    /\ pc = "call"
    /\ args.fn = "_safe_divide"
    /\ LET r == _safe_divide(args.a, args.b)
       IN  /\ ret' = Return(r.out)
           /\ args' = [args EXCEPT !.b = r.b]
    /\ pc' = "done"
    /\ UNCHANGED <<self, log>>

NextSafeDivide == SafeDivideCall

SpecSafeDivide == InitSafeDivide /\ [][NextSafeDivide]_vars

\* C1: _safe_divide(a, b) returns (never raises) a tensor without NaN/Inf for
\* finite inputs: where b[i] == 0 the result is a[i], elsewhere it is the
\* quotient q with q * b[i] = a[i]; the caller's b is left as it was.
C1_SafeDivide ==
    (pc = "done" /\ args.fn = "_safe_divide") =>
        /\ ret.kind = "return"
        /\ DOMAIN ret.value = DOMAIN args.a
        /\ \A i \in DOMAIN args.a :
              /\ IsFinite(ret.value[i])
              /\ args.b0[i] = R(0) => ret.value[i] = args.a[i]
              /\ args.b0[i] # R(0) => RMul(ret.value[i], args.b0[i]) = args.a[i]
        /\ args.b = args.b0

\* A call with a zero and a non-zero denominator and non-zero numerators.
C1_Witness ==
    /\ pc = "done"
    /\ args.fn = "_safe_divide"
    /\ \E i, j \in DOMAIN args.a :
          /\ args.b0[i] = R(0) /\ args.a[i] # R(0)
          /\ args.b0[j] = R(-2) /\ args.a[j] = R(3)
          /\ ret.value[j] = [n |-> -3, d |-> 2]

(***************************************************************************)
(* _reduce_loss(loss, mask, reduction)                                      *)
(* loss and mask are (b, t) tensors: functions on (0..b-1) \X (0..t-1).    *)
(***************************************************************************)
\* A 0-d tensor and its value.
Scalar(x) == [i \in {<<>>} |-> x]

Item(x) == x[<<>>]

Rows(x) == {p[1] : p \in DOMAIN x}

Cols(x) == {p[2] : p \in DOMAIN x}

\* A bool mask entry as a number.
AsNum(m) == IF m THEN R(1) ELSE R(0)

\* einops reduce(x, "b t -> ", "sum")
ReduceAll(x) == RSum(x, DOMAIN x)

\* einops reduce(x, "b t -> t", "sum")
ReduceOverB(x) == [t \in Cols(x) |-> RSum(x, {p \in DOMAIN x : p[2] = t})]

\* einops reduce(x, "t -> ", "mean")
ReduceMeanT(x) == RDiv(RSum(x, DOMAIN x), R(Cardinality(DOMAIN x)))

MaskNum(mask) == [p \in DOMAIN mask |-> AsNum(mask[p])]

\* case "sum"
reduce_sum(loss, mask) == ReduceAll(loss)

\* case "mean"  (reduce_mean_unsafe: the plain division of the commented line)
reduce_mean_unsafe(loss, mask) ==
    RDiv(ReduceAll(loss), ReduceAll(MaskNum(mask)))

reduce_mean(loss, mask) ==
    Item(_safe_divide(Scalar(ReduceAll(loss)),
                      Scalar(ReduceAll(MaskNum(mask)))).out)

\* case "task_mean"  (reduce_task_mean_weighted: the tasks weighted by their
\* active-example counts)
reduce_task_mean_weighted(loss, mask) == reduce_mean(loss, mask)

reduce_task_mean(loss, mask) ==
    ReduceMeanT(_safe_divide(ReduceOverB(loss),
                             ReduceOverB(MaskNum(mask))).out)

\* (reduce_loss_lenient: an unknown reduction falls back to "sum")
reduce_loss_lenient(loss, mask, reduction) ==
    CASE reduction = "mean" -> Return(reduce_mean(loss, mask))
      [] reduction = "task_mean" -> Return(reduce_task_mean(loss, mask))
      [] OTHER -> Return(reduce_sum(loss, mask))

_reduce_loss(loss, mask, reduction) ==
    CASE reduction = "sum" -> Return(reduce_sum(loss, mask))
      [] reduction = "mean" -> Return(reduce_mean(loss, mask))
      [] reduction = "task_mean" -> Return(reduce_task_mean(loss, mask))
      [] OTHER -> Raise("ValueError")

(***************************************************************************)
(* MTTrainer._apply_loss_coefficient(loss, loss_info)                       *)
(* slf.tasks[t].loss_coefficients is the mapping target -> coefficient of   *)
(* task t (multi_task_config.task_by_idx(t)).  The loss has num_tasks       *)
(* columns, so the (t,) vector broadcasts over its rows.                    *)
(***************************************************************************)
\* dict.get(key, default)
Get(dict, key, default) == IF key \in DOMAIN dict THEN dict[key] ELSE default

\* (apply_loss_coefficient_zero: the default coefficient 0.0 instead of 1.0)
apply_loss_coefficient_zero(slf, loss, loss_info) ==
    LET coeff == [t \in 0..(slf.num_tasks - 1) |->
                    Get(slf.tasks[t].loss_coefficients, loss_info.target, R(0))]
    IN  [p \in DOMAIN loss |-> RMul(loss[p], coeff[p[2]])]

_apply_loss_coefficient(slf, loss, loss_info) ==
    LET coeff == [t \in 0..(slf.num_tasks - 1) |->
                    Get(slf.tasks[t].loss_coefficients, loss_info.target, R(1))]
    IN  [p \in DOMAIN loss |-> RMul(loss[p], coeff[p[2]])]

(***************************************************************************)
(* MTTrainer._compute_loss(out, batch_list)                                 *)
(* batch holds the concatenated fields of batch_list: batch (atom ->        *)
(* example), fixed (per atom), task_mask ((bsz, t) bool).  fn_out[k] is the *)
(* tensor loss_info.fn(pred, target) of term k: val its elements ((bsz, t)  *)
(* or (n_atoms, t)), grad_fn its gradient lineage ("None" when detached).   *)
(* self.normalizers is empty (load_task), so no target is normalized.       *)
(***************************************************************************)
Max(S) == CHOOSE x \in S : \A y \in S : y <= x

Range(f) == {f[x] : x \in DOMAIN f}

\* loss_mask without the free-atom restriction.
loss_mask_ignore_fixed(batch, output_target) ==
    IF output_target.level = "atom"
    THEN [p \in (DOMAIN batch.batch) \X Cols(batch.task_mask) |->
             batch.task_mask[<<batch.batch[p[1]], p[2]>>]]
    ELSE batch.task_mask

\* mask = task_mask; mask = mask[batch_idx] for an atom-level target;
\* mask & free_mask when the target trains on free atoms only.
loss_mask(batch, output_target) ==
    LET level == output_target.level
        task_mask == batch.task_mask
        atom_mask == [p \in (DOMAIN batch.batch) \X Cols(task_mask) |->
                        task_mask[<<batch.batch[p[1]], p[2]>>]]
        free_mask == [a \in DOMAIN batch.fixed |-> batch.fixed[a] = 0]
    IN  IF level = "atom" /\ output_target.train_on_free_atoms
        THEN [p \in DOMAIN atom_mask |-> atom_mask[p] /\ free_mask[p[1]]]
        ELSE IF level = "atom" THEN atom_mask
        ELSE task_mask

\* torch_scatter.scatter(src, index, dim=0, reduce="sum"): row s of the result
\* sums the rows a of src with index[a] = s, for s in 0..max(index).
scatter(src, index) ==
    [p \in (0..Max(Range(index))) \X Cols(src) |->
        RSum(src, {q \in DOMAIN src : index[q[1]] = p[1] /\ q[2] = p[2]})]

\* The structure_wise_mean rewrite: the loss per structure and the mask
\* "this structure has a valid atom".
structure_wise(loss, mask, batch_idx) ==
    LET force_loss_mask_natoms == scatter(MaskNum(mask), batch_idx)
    IN  [loss |-> _safe_divide(scatter(loss, batch_idx),
                               force_loss_mask_natoms).out,
         mask |-> [p \in DOMAIN force_loss_mask_natoms |->
                      force_loss_mask_natoms[p].n > 0]]

\* One pass of the loop over self.loss_fns: the reduced loss of term k, or
\* the exception raised.
term_loss(slf, batch, loss_info, fnout) ==
    LET output_target == slf.typed_output_targets[loss_info.target]
        level == output_target.level
        mask == loss_mask(batch, output_target)
        loss == _apply_loss_coefficient(slf, fnout.val, loss_info)
        grad(v) == [val |-> v, grad_fn |-> fnout.grad_fn]
    IN  IF loss_info.reduction = "structure_wise_mean"
        THEN IF level # "atom" THEN Raise("AssertionError")
             ELSE LET sw == structure_wise(loss, mask, batch.batch)
                      r == _reduce_loss(sw.loss, sw.mask, "mean")
                  IN  Return(grad(r.value))
        ELSE LET r == _reduce_loss(loss, mask, loss_info.reduction)
             IN  IF r.kind = "raise" THEN r ELSE Return(grad(r.value))

\* hasattr(lc, "grad_fn"): grad_fn is an attribute of every tensor, None
\* included.
hasattr_grad_fn(lc) == "grad_fn" \in DOMAIN lc

\* sum(losses)
RECURSIVE sum_losses(_, _)
sum_losses(losses, k) ==
    IF k = 0 THEN [val |-> R(0), grad_fn |-> "None"]
    ELSE LET rest == sum_losses(losses, k - 1)
         IN  [val |-> RAdd(rest.val, losses[k].val),
              grad_fn |-> IF rest.grad_fn = "None" /\ losses[k].grad_fn = "None"
                          THEN "None" ELSE "AddBackward0"]

_compute_loss(slf, batch, fn_out) ==
    LET K == Len(slf.loss_fns)
        terms == [k \in 1..K |-> term_loss(slf, batch, slf.loss_fns[k], fn_out[k])]
        raised == {k \in 1..K : terms[k].kind = "raise"}
    IN  IF raised # {} THEN terms[CHOOSE k \in raised : \A j \in raised : k <= j]
        ELSE LET losses == [k \in 1..K |-> terms[k].value]
             IN  IF \E k \in 1..K : ~hasattr_grad_fn(losses[k])
                 THEN Raise("AssertionError")
                 ELSE Return(sum_losses(losses, K))

(***************************************************************************)
(* Specification of the loss path: a call of _reduce_loss, of               *)
(* _apply_loss_coefficient or of _compute_loss, its inputs drawn in Init.   *)
(***************************************************************************)
Shapes == {sh \in (1..MaxCells) \X (1..MaxCells) : sh[1] * sh[2] <= MaxCells}

Idx(rows, cols) == (0..(rows - 1)) \X (0..(cols - 1))

Tensor(x) == [p \in DOMAIN x |-> R(x[p])]

Reductions == {"sum", "mean", "task_mean", "structure_wise_mean", "max"}

LossVals == {0, 1, 2}

\* The example of the task_mean property: task 0 has one active example with
\* loss 4.0, task 1 three active examples with loss 2.0 each.
ExampleMask == [p \in Idx(4, 2) |-> (p = <<0, 0>>) \/ (p[1] > 0 /\ p[2] = 1)]

ExampleLoss ==
    [p \in Idx(4, 2) |-> IF p = <<0, 0>> THEN R(4)
                          ELSE IF ExampleMask[p] THEN R(2) ELSE R(0)]

InitReduceLoss ==
    /\ self = NoSelf
    /\ \E reduction \in Reductions :
         \/ \E sh \in Shapes :
               \E loss \in [Idx(sh[1], sh[2]) -> LossVals],
                  mask \in [Idx(sh[1], sh[2]) -> BOOLEAN] :
                  args = [fn |-> "_reduce_loss", loss |-> Tensor(loss),
                          mask |-> mask, reduction |-> reduction]
         \/ args = [fn |-> "_reduce_loss", loss |-> ExampleLoss,
                    mask |-> ExampleMask, reduction |-> reduction]

Targets == {"energy", "forces"}

\* The loss_coefficients mappings a task may be configured with.
CoeffConfigs ==
    {[x \in {} |-> R(1)],
     [x \in {"energy"} |-> R(2)],
     [x \in {"forces"} |-> R(3)],
     [x \in Targets |-> IF x = "energy" THEN R(2) ELSE R(3)]}

CoeffLossVals == {1, 2}

InitApplyLossCoefficient ==
    \E sh \in Shapes :
       \E loss \in [Idx(sh[1], sh[2]) -> CoeffLossVals],
          coeffs \in [0..(sh[2] - 1) -> CoeffConfigs],
          target \in Targets :
          /\ self = [num_tasks |-> sh[2],
                     tasks |-> [t \in 0..(sh[2] - 1) |->
                                  [loss_coefficients |-> coeffs[t]]]]
          /\ args = [fn |-> "_apply_loss_coefficient", loss |-> Tensor(loss),
                     loss_info |-> [target |-> target]]

\* batch.batch of n atoms: the atoms of structure 0, then of structure 1, ...
BatchIdx(n) ==
    {f \in [0..(n - 1) -> 0..(n - 1)] :
        /\ f[0] = 0
        /\ \A a \in 1..(n - 1) : f[a] \in {f[a - 1], f[a - 1] + 1}}

FnVals == {0, 1}

GradFns == {"None", "L1LossBackward0"}

OutputTargets(tofa) ==
    [x \in Targets |-> IF x = "energy"
                       THEN [level |-> "system", train_on_free_atoms |-> FALSE]
                       ELSE [level |-> "atom", train_on_free_atoms |-> tofa]]

\* Rows of the tensor loss_info.fn returns for a target of this level.
FnRows(level, batch) ==
    IF level = "atom" THEN Cardinality(DOMAIN batch.batch)
    ELSE Max(Range(batch.batch)) + 1

\* One loss term, the batch drawn freely.
InitComputeLossOneTerm ==
    \E sh \in {s \in Shapes : s[1] <= MaxAtoms} :
       \E batch_idx \in BatchIdx(sh[1]), fixed \in [0..(sh[1] - 1) -> {0, 1}],
          tofa \in BOOLEAN, target \in Targets, reduction \in Reductions :
          \E task_mask \in [Idx(Max(Range(batch_idx)) + 1, sh[2]) -> BOOLEAN] :
             LET batch == [batch |-> batch_idx, fixed |-> fixed,
                           task_mask |-> task_mask]
                 level == OutputTargets(tofa)[target].level
             IN  \E val \in [Idx(FnRows(level, batch), sh[2]) -> FnVals] :
                    /\ self = [num_tasks |-> sh[2],
                               tasks |-> [t \in 0..(sh[2] - 1) |->
                                   [loss_coefficients |-> [x \in {} |-> R(1)]]],
                               typed_output_targets |-> OutputTargets(tofa),
                               loss_fns |-> <<[target |-> target,
                                              reduction |-> reduction]>>]
                    /\ args = [fn |-> "_compute_loss", batch |-> batch,
                               fn_out |-> <<[val |-> Tensor(val),
                                            grad_fn |-> "L1LossBackward0"]>>]

\* Several loss terms on one batch: two structures of one atom each, the
\* second atom fixed, structure s active for task s.
TwoStructures ==
    [batch |-> [a \in 0..1 |-> a], fixed |-> [a \in 0..1 |-> a],
     task_mask |-> [p \in Idx(2, 2) |-> p[1] = p[2]]]

TermKinds ==
    [target : Targets, reduction : Reductions, grad_fn : GradFns]

InitComputeLossTerms ==
    \E K \in 2..MaxTerms :
       \E kinds \in [1..K -> TermKinds], tofa \in BOOLEAN,
          coeffs \in {[x \in {} |-> R(1)], [x \in {"forces"} |-> R(3)]} :
          /\ self = [num_tasks |-> 2,
                     tasks |-> [t \in 0..1 |->
                         [loss_coefficients |->
                             IF t = 0 THEN coeffs ELSE [x \in {} |-> R(1)]]],
                     typed_output_targets |-> OutputTargets(tofa),
                     loss_fns |-> [k \in 1..K |->
                         [target |-> kinds[k].target,
                          reduction |-> kinds[k].reduction]]]
          /\ args = [fn |-> "_compute_loss", batch |-> TwoStructures,
                     fn_out |-> [k \in 1..K |->
                         [val |-> [p \in Idx(2, 2) |-> R(1)],
                          grad_fn |-> kinds[k].grad_fn]]]

InitLoss ==
    /\ \/ InitReduceLoss
       \/ InitApplyLossCoefficient
       \/ InitComputeLossOneTerm
       \/ InitComputeLossTerms
    /\ ret = NoRet
    /\ log = <<>>
    /\ pc = "call"

ReduceLossCall ==
    /\ pc = "call"
    /\ args.fn = "_reduce_loss"
    /\ ret' = _reduce_loss(args.loss, args.mask, args.reduction)
    /\ pc' = "done"
    /\ UNCHANGED <<self, args, log>>

ApplyLossCoefficientCall ==
    /\ pc = "call"
    /\ args.fn = "_apply_loss_coefficient"
    /\ ret' = Return(_apply_loss_coefficient(self, args.loss, args.loss_info))
    /\ pc' = "done"
    /\ UNCHANGED <<self, args, log>>

ComputeLossCall ==
    /\ pc = "call"
    /\ args.fn = "_compute_loss"
    /\ ret' = _compute_loss(self, args.batch, args.fn_out)
    /\ pc' = "done"
    /\ UNCHANGED <<self, args, log>>

NextLoss ==
    \/ ReduceLossCall
    \/ ApplyLossCoefficientCall
    \/ ComputeLossCall

SpecLoss == InitLoss /\ [][NextLoss]_vars

(***************************************************************************)
(* Properties of the reduction engine.                                      *)
(***************************************************************************)
IsCall(f) == pc = "done" /\ args.fn = f

\* Number of true entries of a mask among the indices S.
Count(mask, S) == Cardinality({p \in S : mask[p]})

Column(x, t) == {p \in DOMAIN x : p[2] = t}

\* C2: _reduce_loss with reduction "mean" returns sum(loss) / sum(mask), the
\* denominator replaced by 1.0 when sum(mask) is zero; for an all-true mask
\* that is sum(loss) / numel(loss).
C2_ReduceMean ==
    (IsCall("_reduce_loss") /\ args.reduction = "mean") =>
        LET total == RSum(args.loss, DOMAIN args.loss)
            active == Count(args.mask, DOMAIN args.mask)
            numel == Cardinality(DOMAIN args.loss)
        IN  /\ ret.kind = "return"
            /\ active = 0 => ret.value = total
            /\ active # 0 => RMul(ret.value, R(active)) = total
            /\ (\A p \in DOMAIN args.mask : args.mask[p]) =>
                  RMul(ret.value, R(numel)) = total

\* A mean over a mask that is empty although the loss is not, and a mean over
\* an all-true mask.
C2_Witness ==
    /\ IsCall("_reduce_loss")
    /\ args.reduction = "mean"
    /\ \/ /\ Count(args.mask, DOMAIN args.mask) = 0
          /\ ret.value = R(3)
       \/ /\ \A p \in DOMAIN args.mask : args.mask[p]
          /\ ret.value = [n |-> 3, d |-> 4]

\* The mean of task t alone: sum_b loss[b, t] / sum_b mask[b, t], safely.
TaskMean(loss, mask, t) ==
    LET total == RSum(loss, Column(loss, t))
        active == Count(mask, Column(mask, t))
    IN  IF active = 0 THEN total ELSE RDiv(total, R(active))

\* C3: _reduce_loss with reduction "task_mean" returns the unweighted mean
\* over the task columns of the per-task safe means, whatever the tasks'
\* active-example counts; on the example (task 0: one active example with
\* loss 4.0, task 1: three with loss 2.0 each) "mean" gives 2.5 and
\* "task_mean" gives 3.0.
C3_ReduceTaskMean ==
    /\ (IsCall("_reduce_loss") /\ args.reduction = "task_mean") =>
          LET tasks == Cols(args.loss)
              means == [t \in tasks |-> TaskMean(args.loss, args.mask, t)]
          IN  /\ ret.kind = "return"
              /\ RMul(ret.value, R(Cardinality(tasks))) = RSum(means, tasks)
    /\ (IsCall("_reduce_loss") /\ args.loss = ExampleLoss
           /\ args.mask = ExampleMask) =>
          /\ args.reduction = "mean" => ret = Return([n |-> 5, d |-> 2])
          /\ args.reduction = "task_mean" => ret = Return(R(3))

\* The example, reduced by task_mean.
C3_Witness ==
    /\ IsCall("_reduce_loss")
    /\ args.reduction = "task_mean"
    /\ args.loss = ExampleLoss
    /\ args.mask = ExampleMask
    /\ ret.value = R(3)

(***************************************************************************)
(* Properties of the loss coefficient resolver.                             *)
(***************************************************************************)
\* C5: _apply_loss_coefficient multiplies each element of task column t by
\* the coefficient task t configures for the term's target, and by 1.0 when
\* task t configures none; no other task's coefficient scales column t.
C5_ApplyLossCoefficient ==
    IsCall("_apply_loss_coefficient") =>
        /\ ret.kind = "return"
        /\ DOMAIN ret.value = DOMAIN args.loss
        /\ \A p \in DOMAIN args.loss :
              LET configured == self.tasks[p[2]].loss_coefficients
                  target == args.loss_info.target
              IN  /\ target \in DOMAIN configured =>
                        ret.value[p] = RMul(args.loss[p], configured[target])
                  /\ target \notin DOMAIN configured =>
                        ret.value[p] = args.loss[p]

\* Two tasks, one with a coefficient for the target and one without, and a
\* coefficient for the other target that is left out of it.
C5_Witness ==
    /\ IsCall("_apply_loss_coefficient")
    /\ args.loss_info.target = "energy"
    /\ self.num_tasks = 2
    /\ DOMAIN self.tasks[0].loss_coefficients = {"energy"}
    /\ DOMAIN self.tasks[1].loss_coefficients = {"forces"}
    /\ args.loss[<<0, 0>>] = R(1) /\ ret.value[<<0, 0>>] = R(2)
    /\ args.loss[<<0, 1>>] = R(2) /\ ret.value[<<0, 1>>] = R(2)

(***************************************************************************)
(* Properties of the per-task loss aggregator.                              *)
(***************************************************************************)
\* The reduced loss of term k of the call, or the exception it raised.
Term(k) == term_loss(self, args.batch, self.loss_fns[k], args.fn_out[k])

\* The (structure, task) pairs without a valid atom under the mask of term k.
EmptyPairs(k) ==
    LET mask == loss_mask(args.batch,
                          self.typed_output_targets[self.loss_fns[k].target])
    IN  {p \in (Range(args.batch.batch)) \X Cols(mask) :
            ~\E a \in DOMAIN args.batch.batch :
                args.batch.batch[a] = p[1] /\ mask[<<a, p[2]>>]}

\* fn_out with the per-atom loss of term k put to zero on the atoms of the
\* pairs in E.
ZeroedOn(E, k) ==
    [args.fn_out EXCEPT ![k].val =
        [p \in DOMAIN @ |-> IF <<args.batch.batch[p[1]], p[2]>> \in E
                             THEN R(0) ELSE @[p]]]

\* C4: under structure_wise_mean a (structure, task) pair without a valid atom
\* contributes zero to the reduced loss of the term, whatever the per-atom
\* loss values (the loss is the one obtained with those values at zero), and
\* its entry of the rewritten mask is false.
C4_ZeroValidPairContributesZero ==
    (/\ IsCall("_compute_loss")
     /\ Len(self.loss_fns) = 1
     /\ self.loss_fns[1].reduction = "structure_wise_mean"
     /\ ret.kind = "return") =>
        LET info == self.loss_fns[1]
            mask == loss_mask(args.batch, self.typed_output_targets[info.target])
            loss == _apply_loss_coefficient(self, args.fn_out[1].val, info)
            sw == structure_wise(loss, mask, args.batch.batch)
        IN  /\ \A p \in EmptyPairs(1) : ~sw.mask[p]
            /\ ret.value.val =
                 _compute_loss(self, args.batch,
                               ZeroedOn(EmptyPairs(1), 1)).value.val

ValidReductions == {"sum", "mean", "task_mean", "structure_wise_mean"}

\* Term k declares a reduction _compute_loss does not accept.
BadTerm(k) ==
    LET info == self.loss_fns[k]
    IN  \/ info.reduction \notin ValidReductions
        \/ /\ info.reduction = "structure_wise_mean"
           /\ self.typed_output_targets[info.target].level # "atom"

\* C9: an unknown reduction is fatal: _reduce_loss raises ValueError for every
\* reduction outside sum, mean, task_mean, and _compute_loss raises (returns
\* no loss) when a term declares a reduction outside sum, mean, task_mean,
\* structure_wise_mean, or structure_wise_mean on a target that is not
\* atom-level.
C9_UnknownReductionFatal ==
    /\ (IsCall("_reduce_loss")
           /\ args.reduction \notin {"sum", "mean", "task_mean"}) =>
          ret = Raise("ValueError")
    /\ (IsCall("_compute_loss")
           /\ \E k \in 1..Len(self.loss_fns) : BadTerm(k)) =>
          ret.kind = "raise"

\* A call whose first term is fine and whose second declares an unknown
\* reduction.
C9_Witness ==
    /\ IsCall("_compute_loss")
    /\ Len(self.loss_fns) = 2
    /\ ~BadTerm(1)
    /\ self.loss_fns[2].reduction = "max"
    /\ ret = Raise("ValueError")

\* C10: _compute_loss fails with an assertion error whenever the reduced loss
\* of a term is detached (its grad_fn is None), and returns a loss only if
\* every term carries a gradient lineage.
C10_DetachedTermAsserts ==
    IsCall("_compute_loss") =>
        LET K == Len(self.loss_fns)
        IN  /\ ((\A k \in 1..K : Term(k).kind = "return")
                  /\ \E k \in 1..K : Term(k).value.grad_fn = "None") =>
                    ret = Raise("AssertionError")
            /\ ret.kind = "return" =>
                    \A k \in 1..K : Term(k).value.grad_fn # "None"

\* The mask the reduction of a term is specified to use: task_mask for a
\* system-level target; for an atom-level target the task_mask row of the
\* atom's example, restricted to the free atoms when the target is configured
\* with train_on_free_atoms.
TermMask(batch, output_target) ==
    IF output_target.level = "atom"
    THEN [p \in (DOMAIN batch.batch) \X Cols(batch.task_mask) |->
             /\ batch.task_mask[<<batch.batch[p[1]], p[2]>>]
             /\ output_target.train_on_free_atoms => batch.fixed[p[1]] = 0]
    ELSE batch.task_mask

\* C16: in _compute_loss the mask of a term is task_mask unchanged for a
\* system-level target (the fixed flags are ignored) and, for an atom-level
\* target, mask[a, t] is true iff task_mask[batch[a], t] is true and, when the
\* target is configured with train_on_free_atoms, fixed[a] = 0; it is the mask
\* the term's reduction divides by.
C16_LossMask ==
    args.fn = "_compute_loss" =>
        /\ \A k \in 1..Len(self.loss_fns) :
              LET output_target ==
                      self.typed_output_targets[self.loss_fns[k].target]
              IN  loss_mask(args.batch, output_target) =
                      TermMask(args.batch, output_target)
        /\ (/\ pc = "done"
            /\ Len(self.loss_fns) = 1
            /\ self.loss_fns[1].reduction \in {"sum", "mean", "task_mean"}) =>
              LET info == self.loss_fns[1]
                  mask == TermMask(args.batch,
                                   self.typed_output_targets[info.target])
                  loss == _apply_loss_coefficient(self, args.fn_out[1].val, info)
              IN  /\ ret.kind = "return"
                  /\ ret.value.val = _reduce_loss(loss, mask, info.reduction).value

\* A mean over an atom-level target trained on free atoms only: two atoms of
\* one structure active for the task, one of them fixed, so that the mean
\* divides by one atom and not by two.
C16_Witness ==
    /\ IsCall("_compute_loss")
    /\ Len(self.loss_fns) = 1
    /\ self.loss_fns[1] = [target |-> "forces", reduction |-> "mean"]
    /\ self.typed_output_targets["forces"].train_on_free_atoms
    /\ self.num_tasks = 1
    /\ DOMAIN args.batch.batch = 0..1
    /\ args.batch.batch[1] = 0
    /\ args.batch.fixed[0] = 0 /\ args.batch.fixed[1] = 1
    /\ args.batch.task_mask[<<0, 0>>]
    /\ args.fn_out[1].val[<<0, 0>>] = R(1)
    /\ args.fn_out[1].val[<<1, 0>>] = R(1)
    /\ ret.value.val = R(2)

\* The tensors loss_info.fn may return for term 1 in a second run that
\* differs from this one only in the prediction/target values at positions
\* where the mask of the term is false.
MaskedOutVariants ==
    LET info == self.loss_fns[1]
        mask == loss_mask(args.batch, self.typed_output_targets[info.target])
        val == args.fn_out[1].val
    IN  {x \in [DOMAIN val -> {R(v) : v \in FnVals}] :
            \A p \in DOMAIN val : mask[p] => x[p] = val[p]}

\* C18: masked-out elements do not influence the training loss: for the
\* reductions mean, task_mean and structure_wise_mean, two runs of
\* _compute_loss that differ only in the values at positions where the mask of
\* the term is false return the same loss.
C18_MaskedOutNoInfluence ==
    (/\ IsCall("_compute_loss")
     /\ Len(self.loss_fns) = 1
     /\ self.loss_fns[1].reduction \in
            {"mean", "task_mean", "structure_wise_mean"}
     /\ ret.kind = "return") =>
        \A x \in MaskedOutVariants :
            _compute_loss(self, args.batch,
                          [args.fn_out EXCEPT ![1].val = x]).value.val
                = ret.value.val

(***************************************************************************)
(* Output merger/validator.  A tensor is [shape, data]: data maps the index *)
(* tuples of the shape (0-based) to values.  A dict is a function on its    *)
(* keys.                                                                    *)
(***************************************************************************)
RECURSIVE Indices(_)
Indices(shape) ==
    IF shape = <<>> THEN {<<>>}
    ELSE {<<i>> \o rest : i \in 0..(Head(shape) - 1), rest \in Indices(Tail(shape))}

\* f"{target_name}_task_{task_idx}"
task_key(target_name, task_idx) == target_name \o "_task_" \o ToString(task_idx)

\* load_task: the per-task keys of each target, in task index order.
\* (multi_task_targets_reversed: the keys appended in descending order.)
multi_task_targets_reversed(target_names, num_tasks) ==
    [target_name \in Range(target_names) |->
        [i \in 1..num_tasks |-> task_key(target_name, num_tasks - i)]]

multi_task_targets(target_names, num_tasks) ==
    [target_name \in Range(target_names) |->
        [i \in 1..num_tasks |-> task_key(target_name, i - 1)]]

\* torch.stack(tensors, dim=1)
torch_stack(tensors) ==
    IF Len(tensors) = 0 THEN Raise("RuntimeError")
    ELSE IF \E i \in 1..Len(tensors) : tensors[i].shape # tensors[1].shape
         THEN Raise("RuntimeError")
    ELSE IF tensors[1].shape = <<>> THEN Raise("IndexError")
    ELSE LET sh == tensors[1].shape
             shape == <<Head(sh), Len(tensors)>> \o Tail(sh)
         IN  Return([shape |-> shape,
                     data |-> [idx \in Indices(shape) |->
                         tensors[idx[2] + 1].data[<<idx[1]>> \o
                                                  SubSeq(idx, 3, Len(idx))]]])

\* The loop of _merge_mt_outputs from the k-th target on, merged being the
\* copy so far: each key is popped (KeyError when absent), the tensors are
\* stacked and stored under the target name.
RECURSIVE merge_from(_, _, _)
merge_from(slf, merged, k) ==
    IF k > Len(slf.target_names) THEN Return(merged)
    ELSE LET target_name == slf.target_names[k]
             target_key_list == slf.multi_task_targets[target_name]
         IN  IF \E i \in DOMAIN target_key_list :
                   target_key_list[i] \notin DOMAIN merged
             THEN Raise("KeyError")
             ELSE LET stacked == torch_stack([i \in DOMAIN target_key_list |->
                                                 merged[target_key_list[i]]])
                      keep == (DOMAIN merged) \ Range(target_key_list)
                  IN  IF stacked.kind = "raise" THEN stacked
                      ELSE merge_from(slf,
                               [key \in keep \cup {target_name} |->
                                   IF key = target_name THEN stacked.value
                                   ELSE merged[key]],
                               k + 1)

\* ret: what the call returns or raises; outputs: the caller's mapping after
\* the call (the pops act on the copy outputs.copy()).
_merge_mt_outputs(slf, outputs) ==
    [ret |-> merge_from(slf, outputs, 1), outputs |-> outputs]

\* The loop of _validate_mt_outputs from the k-th target on; warned are the
\* targets warned about so far.
\* (validate_rank_only: the comparison with num_tasks left out.)
RECURSIVE validate_rank_only(_, _, _, _)
validate_rank_only(slf, outputs, k, warned) ==
    IF k > Len(slf.target_names) THEN [ret |-> Return("None"), log |-> warned]
    ELSE LET target == slf.target_names[k]
             config == slf.output_targets[target]
             system == Get(config, "level", "system")
         IN  IF target \notin DOMAIN outputs
             THEN validate_rank_only(slf, outputs, k + 1, Append(warned, target))
             ELSE IF system = "system"
             THEN IF Len(outputs[target].shape) = 2
                  THEN validate_rank_only(slf, outputs, k + 1, warned)
                  ELSE [ret |-> Raise("AssertionError"), log |-> warned]
             ELSE IF system = "atom"
             THEN IF Len(outputs[target].shape) = 3
                  THEN validate_rank_only(slf, outputs, k + 1, warned)
                  ELSE [ret |-> Raise("AssertionError"), log |-> warned]
             ELSE [ret |-> Raise("NotImplementedError"), log |-> warned]

RECURSIVE validate_from(_, _, _, _)
validate_from(slf, outputs, k, warned) ==
    IF k > Len(slf.target_names) THEN [ret |-> Return("None"), log |-> warned]
    ELSE LET target == slf.target_names[k]
             config == slf.output_targets[target]
             system == Get(config, "level", "system")
         IN  IF target \notin DOMAIN outputs
             THEN validate_from(slf, outputs, k + 1, Append(warned, target))
             ELSE LET value == outputs[target]
                      ndim == Len(value.shape)
                  IN  IF system = "system"
                      THEN IF ndim = 2 /\ value.shape[2] = slf.num_tasks
                           THEN validate_from(slf, outputs, k + 1, warned)
                           ELSE [ret |-> Raise("AssertionError"), log |-> warned]
                      ELSE IF system = "atom"
                      THEN IF ndim = 3 /\ value.shape[2] = slf.num_tasks
                           THEN validate_from(slf, outputs, k + 1, warned)
                           ELSE [ret |-> Raise("AssertionError"), log |-> warned]
                      ELSE [ret |-> Raise("NotImplementedError"), log |-> warned]

_validate_mt_outputs(slf, outputs) == validate_from(slf, outputs, 1, <<>>)

\* _forward: outputs are the outputs of the model (super()._forward).
_forward(slf, outputs) ==
    LET merged == _merge_mt_outputs(slf, outputs).ret
    IN  IF merged.kind = "raise" THEN [ret |-> merged, log |-> <<>>]
        ELSE LET v == _validate_mt_outputs(slf, merged.value)
             IN  IF v.ret.kind = "raise" THEN v
                 ELSE [ret |-> merged, log |-> v.log]

(***************************************************************************)
(* Specification of the output path: a call of _validate_mt_outputs, of     *)
(* _merge_mt_outputs or of _forward, its inputs drawn in Init.              *)
(***************************************************************************)
TargetNames == <<"energy", "forces">>

Zeros(shape) == [shape |-> shape, data |-> [idx \in Indices(shape) |-> 0]]

\* Shapes of the tensors handed to _validate_mt_outputs: 8 rows, ranks 1 to 4.
ValidateShapes ==
    {<<8>>} \cup {<<8, t>> : t \in 2..MaxTasks}
            \cup {<<8, t, 3>> : t \in 2..MaxTasks}
            \cup {<<8, MaxTasks, 3, 1>>}

\* The configurations of a target: its level, or no level at all.
LevelConfigs ==
    {[x \in {} |-> "system"]} \cup
    {[x \in {"level"} |-> level] : level \in {"system", "atom", "edge"}}

\* The dicts with keys among keys and values among values.
Dicts(keys, values) == UNION {[present -> values] : present \in SUBSET keys}

InitValidate ==
    \E num_tasks \in 2..MaxTasks :
       \E configs \in [Targets -> LevelConfigs],
          shapes \in Dicts(Targets, ValidateShapes) :
          /\ self = [num_tasks |-> num_tasks,
                     target_names |-> TargetNames,
                     output_targets |-> configs,
                     multi_task_targets |->
                         multi_task_targets(TargetNames, num_tasks)]
          /\ args = [fn |-> "_validate_mt_outputs",
                     outputs |-> [x \in DOMAIN shapes |-> Zeros(shapes[x])]]

\* Per-task outputs of the model: (bsz,) tensors of two examples and
\* (n_atoms, 3) tensors of one atom.
ModelTensors ==
    {[shape |-> <<2>>, data |-> [idx \in Indices(<<2>>) |-> idx[1] + v]]
        : v \in {0, 1}}
    \cup
    {[shape |-> <<1, 3>>, data |-> [idx \in Indices(<<1, 3>>) |-> idx[2] + v]]
        : v \in {0, 1}}

TaskKeys(num_tasks) ==
    {task_key(TargetNames[k], i) : k \in DOMAIN TargetNames,
                                   i \in 0..(num_tasks - 1)}

InitForward ==
    \E num_tasks \in 1..MaxMergeTasks, fn \in {"_merge_mt_outputs", "_forward"} :
       \E outputs \in Dicts(TaskKeys(num_tasks) \cup {"extra"}, ModelTensors) :
          /\ self = [num_tasks |-> num_tasks,
                     target_names |-> TargetNames,
                     output_targets |->
                         [x \in Targets |->
                             [y \in {"level"} |-> OutputTargets(FALSE)[x].level]],
                     multi_task_targets |->
                         multi_task_targets(TargetNames, num_tasks)]
          /\ args = [fn |-> fn, outputs |-> outputs, outputs0 |-> outputs]

InitOutputs ==
    /\ InitValidate \/ InitForward
    /\ ret = NoRet
    /\ log = <<>>
    /\ pc = "call"

ValidateCall ==
    /\ pc = "call"
    /\ args.fn = "_validate_mt_outputs"
    /\ LET r == _validate_mt_outputs(self, args.outputs)
       IN  ret' = r.ret /\ log' = r.log
    /\ pc' = "done"
    /\ UNCHANGED <<self, args>>

MergeCall ==
    /\ pc = "call"
    /\ args.fn = "_merge_mt_outputs"
    /\ LET r == _merge_mt_outputs(self, args.outputs)
       IN  ret' = r.ret /\ args' = [args EXCEPT !.outputs = r.outputs]
    /\ pc' = "done"
    /\ UNCHANGED <<self, log>>

ForwardCall ==
    /\ pc = "call"
    /\ args.fn = "_forward"
    /\ LET r == _forward(self, args.outputs)
       IN  ret' = r.ret /\ log' = r.log
    /\ pc' = "done"
    /\ UNCHANGED <<self, args>>

NextOutputs ==
    \/ ValidateCall
    \/ MergeCall
    \/ ForwardCall

SpecOutputs == InitOutputs /\ [][NextOutputs]_vars

(***************************************************************************)
(* Properties of the output merger/validator.                               *)
(***************************************************************************)
\* The level of a configured target, "system" when none is configured.
LevelOf(target) ==
    IF "level" \in DOMAIN self.output_targets[target]
    THEN self.output_targets[target]["level"] ELSE "system"

\* The output of the target has the shape its level asks for.
ShapeAccepted(target) ==
    LET shape == args.outputs[target].shape
    IN  \/ LevelOf(target) = "system" /\ Len(shape) = 2
                                      /\ shape[2] = self.num_tasks
        \/ LevelOf(target) = "atom" /\ Len(shape) = 3
                                    /\ shape[2] = self.num_tasks

\* C6: _validate_mt_outputs accepts a system-level output iff it is rank-2
\* with dimension 1 equal to num_tasks and an atom-level output iff it is
\* rank-3 with dimension 1 equal to num_tasks: it returns iff every output
\* present is accepted, and otherwise raises for the first one that is not,
\* an assertion error for a wrong shape and NotImplementedError for a level
\* other than system and atom.  A system-level (8, 3) with num_tasks = 3
\* passes and a system-level (8, 2) with num_tasks = 3 fails.
C6_ValidateShapes ==
    IsCall("_validate_mt_outputs") =>
        LET present == {k \in DOMAIN TargetNames :
                           TargetNames[k] \in DOMAIN args.outputs}
            rejected == {k \in present : ~ShapeAccepted(TargetNames[k])}
        IN  /\ ret.kind = "return" <=> rejected = {}
            /\ rejected # {} =>
                  LET first == TargetNames[CHOOSE k \in rejected :
                                              \A j \in rejected : k <= j]
                  IN  ret = Raise(IF LevelOf(first) \in {"system", "atom"}
                                  THEN "AssertionError"
                                  ELSE "NotImplementedError")
            /\ (/\ self.num_tasks = 3
                /\ DOMAIN args.outputs = {"energy"}
                /\ LevelOf("energy") = "system") =>
                  /\ args.outputs["energy"].shape = <<8, 3>> =>
                        ret.kind = "return"
                  /\ args.outputs["energy"].shape = <<8, 2>> =>
                        ret = Raise("AssertionError")

\* A system-level (8, 2) output rejected under num_tasks = 3 next to an
\* atom-level (8, 3, 3) output.
C6_Witness ==
    /\ IsCall("_validate_mt_outputs")
    /\ self.num_tasks = 3
    /\ DOMAIN args.outputs = {"energy", "forces"}
    /\ LevelOf("energy") = "atom" /\ LevelOf("forces") = "system"
    /\ args.outputs["energy"].shape = <<8, 3, 3>>
    /\ args.outputs["forces"].shape = <<8, 2>>
    /\ ret = Raise("AssertionError")

\* idx with i put in at the task axis (dimension 1).
AtTask(idx, i) == <<idx[1], i>> \o SubSeq(idx, 2, Len(idx))

\* C7: when _merge_mt_outputs returns, every configured target has one tensor
\* under its bare name whose slice at task-axis position i is the model
\* output keyed "{target}_task_{i}", for every task index i; the per-task
\* keys are gone, the other keys are carried over unchanged, and the
\* caller's mapping is as it was.
C7_MergeOutputs ==
    IsCall("_merge_mt_outputs") =>
        /\ args.outputs = args.outputs0
        /\ ret.kind = "return" =>
              LET merged == ret.value
                  tasks == 0..(self.num_tasks - 1)
                  keys == {task_key(target, i) : target \in Targets, i \in tasks}
              IN  /\ DOMAIN merged =
                        ((DOMAIN args.outputs0) \ keys) \cup Targets
                  /\ \A key \in (DOMAIN args.outputs0) \ (keys \cup Targets) :
                        merged[key] = args.outputs0[key]
                  /\ \A target \in Targets : \A i \in tasks :
                        LET part == args.outputs0[task_key(target, i)]
                        IN  /\ merged[target].shape =
                                  <<Head(part.shape), self.num_tasks>>
                                      \o Tail(part.shape)
                            /\ \A idx \in Indices(part.shape) :
                                  merged[target].data[AtTask(idx, i)] =
                                      part.data[idx]

\* Two tasks with different per-task outputs merged, an unrelated key kept.
C7_Witness ==
    /\ IsCall("_merge_mt_outputs")
    /\ self.num_tasks = 2
    /\ ret.kind = "return"
    /\ "extra" \in DOMAIN ret.value
    /\ args.outputs0["energy_task_0"] # args.outputs0["energy_task_1"]
    /\ args.outputs0["forces_task_0"] # args.outputs0["forces_task_1"]
    /\ ret.value["forces"].shape = <<1, 2, 3>>

\* The configured targets none of whose per-task outputs the model returned.
AbsentTargets ==
    {target \in Targets :
        \A i \in 0..(self.num_tasks - 1) :
            task_key(target, i) \notin DOMAIN args.outputs}

\* C8: a configured target absent from the model's outputs is not fatal:
\* _forward (merge, then validate) completes, warning about that target, and
\* still validates the other targets.
C8_MissingTargetNonFatal ==
    (IsCall("_forward") /\ AbsentTargets # {}) =>
        LET others == Targets \ AbsentTargets
            rest == [self EXCEPT
                        !.target_names = SelectSeq(TargetNames,
                                            LAMBDA x : x \in others)]
        IN  /\ Range(log) = AbsentTargets
            /\ ret.kind = _forward(rest, args.outputs).ret.kind

(***************************************************************************)
(* Per-task metric tracker.  self holds the four accumulator families of    *)
(* load_task, each a dict task_idx -> torchmetrics.MeanAbsoluteError, the   *)
(* metric's state being sum_abs_error and total.  A batch holds the         *)
(* concatenated fields of batch_list: batch (atom -> example), task_idx     *)
(* (per example), task_mask ((bsz, t) bool), energy_onehot ((bsz, t)) and   *)
(* forces_onehot ((n_atoms, t) vectors).                                    *)
(***************************************************************************)
\* torchmetrics.MeanAbsoluteError(): a metric that has seen nothing.
MeanAbsoluteError == [sum_abs_error |-> R(0), total |-> 0]

RAbs(x) == [n |-> Abs(x.n), d |-> x.d]

RSub(x, y) == RAdd(x, RMul(R(-1), y))

\* metric.update(preds, target) on flat tensors.
mae_update(metric, preds, target) ==
    LET err == [i \in 1..Len(preds) |-> RAbs(RSub(preds[i], target[i]))]
    IN  [sum_abs_error |-> RAdd(metric.sum_abs_error, RSum(err, 1..Len(preds))),
         total |-> metric.total + Len(preds)]

\* metric.compute(): the mean absolute error over everything seen, 0/0 when
\* nothing was.
mae_compute(metric) == RDiv(metric.sum_abs_error, R(metric.total))

\* metric(preds, target): accumulates the batch into the state and returns the
\* value of the batch alone.
mae_forward(metric, preds, target) ==
    [metric |-> mae_update(metric, preds, target),
     value |-> mae_compute(mae_update(MeanAbsoluteError, preds, target))]

\* The index pairs of S in row-major order.
RECURSIVE RowMajor(_)
RowMajor(S) ==
    IF S = {} THEN <<>>
    ELSE LET p == CHOOSE q \in S : \A r \in S :
                      q[1] < r[1] \/ (q[1] = r[1] /\ q[2] <= r[2])
         IN  <<p>> \o RowMajor(S \ {p})

\* The index pairs of S in column-major order.
RECURSIVE ColumnMajor(_)
ColumnMajor(S) ==
    IF S = {} THEN <<>>
    ELSE LET p == CHOOSE q \in S : \A r \in S :
                      q[2] < r[2] \/ (q[2] = r[2] /\ q[1] <= r[1])
         IN  <<p>> \o ColumnMajor(S \ {p})

\* Boolean-mask indexing that walks the mask column by column.
boolean_index_by_column(value, mask) ==
    LET pos == ColumnMajor({p \in DOMAIN mask : mask[p]})
    IN  [i \in 1..Len(pos) |-> value[pos[i]]]

\* value[mask] for a mask over the first two axes: the entries (vectors, for
\* a three-axis value) at the true positions of the mask, in row-major order.
boolean_index(value, mask) ==
    LET pos == RowMajor({p \in DOMAIN mask : mask[p]})
    IN  [i \in 1..Len(pos) |-> value[pos[i]]]

\* The elements of a selected tensor, flat: a sequence of scalars is itself,
\* a sequence of vectors is their concatenation.
RECURSIVE Flat(_, _)
Flat(x, level) ==
    IF level = "system" \/ x = <<>> THEN x
    ELSE Head(x) \o Flat(Tail(x), level)

\* mask[batch_idx]: the atom's row is the row of its example.
index_rows(mask, batch_idx) ==
    [p \in (DOMAIN batch_idx) \X Cols(mask) |-> mask[<<batch_idx[p[1]], p[2]>>]]

\* denormalize_tensors(batch_list, target_name, tensors, mask): each tensor
\* of the pair in original units, x * std + mean with the target's statistics.
denormalize_tensors(slf, target_name, tensors) ==
    LET stats == slf.normalizer[target_name]
    IN  [k \in DOMAIN tensors |->
            [i \in DOMAIN tensors[k] |->
                RAdd(RMul(tensors[k][i], stats.std), stats.mean)]]

\* evaluator.update(key, stat, metrics): the entry key of metrics set to stat.
evaluator_update(key, stat, metrics) ==
    [x \in DOMAIN metrics \cup {key} |-> IF x = key THEN stat ELSE metrics[x]]

\* metrics.update(other)
dict_update(metrics, other) ==
    [x \in DOMAIN metrics \cup DOMAIN other |->
        IF x \in DOMAIN other THEN other[x] ELSE metrics[x]]

\* The accumulator family always taken from the training side.
per_task_maes_train_only(slf, quantity) ==
    "train_per_task_" \o quantity \o "_maes"

\* per_task_energy_maes / per_task_force_maes: the validation family when the
\* model is in eval mode, the training family otherwise.
per_task_maes(slf, quantity) ==
    IF ~slf.training THEN "val_per_task_" \o quantity \o "_maes"
    ELSE "train_per_task_" \o quantity \o "_maes"

\* A task's mask that forgets which task each example belongs to.
per_task_mask_any_task(batch, task) == batch.task_mask

\* task_mask & (task_idx == task.idx), the comparison broadcast over the
\* task axis.
per_task_mask(batch, task) ==
    [p \in DOMAIN batch.task_mask |->
        batch.task_mask[p] /\ batch.task_idx[p[1]] = task.idx]

\* One pass of the loop of _compute_per_task_metrics, for one task: the
\* exception raised if any, self with the accumulators of the task updated,
\* and the metrics with the keys of the task added.
per_task_pass(slf, outputs, batch, task, metrics) ==
    LET mask == per_task_mask(batch, task)
        node_mask == index_rows(mask, batch.batch)
        skip == [ret |-> NoRet, self |-> slf, metrics |-> metrics]
    IN  IF ~\E p \in DOMAIN mask : mask[p] THEN skip
        ELSE IF "energy" \notin DOMAIN outputs
        THEN [skip EXCEPT !.ret = Raise("KeyError")]
        ELSE
        LET energy == denormalize_tensors(slf, "energy",
                          <<boolean_index(batch.energy_onehot, mask),
                            boolean_index(outputs["energy"], mask)>>)
            energy_maes == per_task_maes(slf, "energy")
            energy_mae == mae_forward(slf[energy_maes][task.idx],
                                      energy[2], energy[1])
            slf1 == [slf EXCEPT ![energy_maes][task.idx] = energy_mae.metric]
            metrics1 == evaluator_update(task.name \o "_energy_mae",
                                         energy_mae.value, metrics)
        IN  IF "forces" \notin DOMAIN outputs
            THEN [ret |-> Raise("KeyError"), self |-> slf1,
                  metrics |-> metrics1]
            ELSE
            LET forces == denormalize_tensors(slf, "forces",
                    <<Flat(boolean_index(batch.forces_onehot, node_mask), "atom"),
                      Flat(boolean_index(outputs["forces"], node_mask), "atom")>>)
                force_maes == per_task_maes(slf, "force")
                forces_mae == mae_forward(slf[force_maes][task.idx],
                                          forces[2], forces[1])
            IN  [ret |-> NoRet,
                 self |-> [slf1 EXCEPT
                              ![force_maes][task.idx] = forces_mae.metric],
                 metrics |-> evaluator_update(task.name \o "_forces_mae",
                                              forces_mae.value, metrics1)]

\* The loop of _compute_per_task_metrics from task k of the list on: the
\* metrics of the batch, or the exception raised, and self with the
\* accumulators as the loop leaves them.  (after stands for the state the
\* pass for task k leaves.)
RECURSIVE per_task_from(_, _, _, _, _)
per_task_from(slf, outputs, batch, k, metrics) ==
    IF k > Len(slf.tasks) THEN [ret |-> Return(metrics), self |-> slf]
    ELSE CHOOSE r \in
            {IF after.ret.kind = "raise"
             THEN [ret |-> after.ret, self |-> after.self]
             ELSE per_task_from(after.self, outputs, batch, k + 1, after.metrics) :
                after \in {per_task_pass(slf, outputs, batch, slf.tasks[k],
                                         metrics)}} : TRUE

_compute_per_task_metrics(slf, outputs, batch) ==
    per_task_from(slf, outputs, batch, 1, [x \in {} |-> R(0)])

\* The loop of _compute_metrics over outputs.items() from target k on: the
\* aggregated outputs, or the exception raised.
RECURSIVE aggregate_from(_, _, _, _, _)
aggregate_from(slf, outputs, batch, k, aggregated_outputs) ==
    IF k > Len(TargetNames)
    THEN [ret |-> NoRet, aggregated_outputs |-> aggregated_outputs]
    ELSE
    LET target_name == TargetNames[k]
        put(v) == [x \in DOMAIN aggregated_outputs \cup {target_name} |->
                      IF x = target_name THEN v ELSE aggregated_outputs[x]]
        task_mask_node == index_rows(batch.task_mask, batch.batch)
    IN  IF target_name \notin DOMAIN outputs
        THEN aggregate_from(slf, outputs, batch, k + 1, aggregated_outputs)
        ELSE IF target_name \notin DOMAIN slf.typed_output_targets
        THEN [ret |-> Raise("KeyError"),
              aggregated_outputs |-> aggregated_outputs]
        ELSE IF slf.typed_output_targets[target_name].level = "system"
        THEN aggregate_from(slf, outputs, batch, k + 1,
                 put(boolean_index(outputs[target_name], batch.task_mask)))
        ELSE IF slf.typed_output_targets[target_name].level = "atom"
        THEN aggregate_from(slf, outputs, batch, k + 1,
                 put(boolean_index(outputs[target_name], task_mask_node)))
        ELSE [ret |-> Raise("NotImplementedError"),
              aggregated_outputs |-> aggregated_outputs]

\* super()._compute_metrics(...): the metrics of the shared single-task
\* routine are left out of the model, the dict comes back as it was passed.
base_compute_metrics(aggregated_outputs, metrics) == metrics

\* The training accumulators never reset.
reset_train_never(slf) == slf

\* The reset of the train per-task metrics on the print cadence.
reset_train(slf) ==
    IF slf.training /\ slf.step % slf.config.cmd.print_every = 0
    THEN [slf EXCEPT
            !.train_per_task_energy_maes =
                [task_idx \in 0..(slf.num_tasks - 1) |-> MeanAbsoluteError],
            !.train_per_task_force_maes =
                [task_idx \in 0..(slf.num_tasks - 1) |-> MeanAbsoluteError]]
    ELSE slf

\* MTTrainer._compute_metrics(outputs, batch_list, evaluator, metrics): what
\* it returns or raises, self as it leaves it, and its local
\* aggregated_outputs.
_compute_metrics(slf, outputs, batch, metrics) ==
    CHOOSE r \in
        {IF agg.ret.kind = "raise"
         THEN [ret |-> agg.ret, self |-> slf,
               aggregated_outputs |-> agg.aggregated_outputs]
         ELSE IF per_task.ret.kind = "raise"
         THEN [ret |-> per_task.ret, self |-> per_task.self,
               aggregated_outputs |-> agg.aggregated_outputs]
         ELSE [ret |-> Return(dict_update(
                           base_compute_metrics(agg.aggregated_outputs, metrics),
                           per_task.ret.value)),
               self |-> reset_train(per_task.self),
               aggregated_outputs |-> agg.aggregated_outputs] :
            agg \in {aggregate_from(slf, outputs, batch, 1, [x \in {} |-> <<>>])},
            per_task \in {_compute_per_task_metrics(slf, outputs, batch)}} : TRUE

\* The report of validate() that leaves the accumulators as they are.
RECURSIVE report_from_no_reset(_, _, _)
report_from_no_reset(slf, task_idx, metrics) ==
    IF task_idx >= slf.num_tasks THEN [ret |-> Return(metrics), self |-> slf]
    ELSE report_from_no_reset(slf, task_idx + 1,
             evaluator_update("task_" \o ToString(task_idx) \o "_forces_mae",
                 mae_compute(slf.val_per_task_force_maes[task_idx]),
                 evaluator_update("task_" \o ToString(task_idx) \o "_energy_mae",
                     mae_compute(slf.val_per_task_energy_maes[task_idx]),
                     metrics)))

\* The report of validate() that resets each accumulator before reading it.
RECURSIVE report_from_reset_first(_, _, _)
report_from_reset_first(slf, task_idx, metrics) ==
    IF task_idx >= slf.num_tasks THEN [ret |-> Return(metrics), self |-> slf]
    ELSE report_from_reset_first(
             [slf EXCEPT !.val_per_task_energy_maes[task_idx] = MeanAbsoluteError,
                         !.val_per_task_force_maes[task_idx] = MeanAbsoluteError],
             task_idx + 1,
             evaluator_update("task_" \o ToString(task_idx) \o "_forces_mae",
                 mae_compute(MeanAbsoluteError),
                 evaluator_update("task_" \o ToString(task_idx) \o "_energy_mae",
                     mae_compute(MeanAbsoluteError), metrics)))

\* The loop of validate() over range(num_tasks), from task_idx on: each
\* validation accumulator is read, reported under its key, then reset.
RECURSIVE report_from(_, _, _)
report_from(slf, task_idx, metrics) ==
    IF task_idx >= slf.num_tasks THEN [ret |-> Return(metrics), self |-> slf]
    ELSE
    LET energy_mae == slf.val_per_task_energy_maes[task_idx]
        metrics1 == evaluator_update(
                        "task_" \o ToString(task_idx) \o "_energy_mae",
                        mae_compute(energy_mae), metrics)
        slf1 == [slf EXCEPT
                    !.val_per_task_energy_maes[task_idx] = MeanAbsoluteError]
        force_mae == slf1.val_per_task_force_maes[task_idx]
        metrics2 == evaluator_update(
                        "task_" \o ToString(task_idx) \o "_forces_mae",
                        mae_compute(force_mae), metrics1)
        slf2 == [slf1 EXCEPT
                    !.val_per_task_force_maes[task_idx] = MeanAbsoluteError]
    IN  report_from(slf2, task_idx + 1, metrics2)

(***************************************************************************)
(* Specification of the metric tracker: a run of the trainer, an epoch of   *)
(* MaxStep training steps and then validation passes.  The training loop    *)
(* and the validation loop of the base trainer call _compute_metrics once   *)
(* per batch; validate() reports after its loop.  pc is "train" between the *)
(* steps of the training loop, "validate" inside the validation loop and    *)
(* "raised" after an exception.  args records the last call: the batch,     *)
(* outputs and metrics it was given, self as it was before the call, the    *)
(* local aggregated_outputs, and, of the validation loop, the batches fed   *)
(* so far.                                                                  *)
(***************************************************************************)
TaskNames == <<"oc20", "ani1x">>

\* An example of a batch, by the task it belongs to and its task_mask row.
\* The training loader delivers examples active for their own task alone.
TrainKinds ==
    {[task_idx |-> k, row |-> [t \in 0..(Len(TaskNames) - 1) |-> t = k]] :
        k \in 0..(Len(TaskNames) - 1)}

\* The validation loader also delivers an example of task 1 that is active
\* for no task and an example of task 0 that is active for every task.
ValKinds ==
    TrainKinds \cup
    {[task_idx |-> 1, row |-> [t \in 0..(Len(TaskNames) - 1) |-> FALSE]],
     [task_idx |-> 0, row |-> [t \in 0..(Len(TaskNames) - 1) |-> TRUE]]}

\* batch.batch when example i has i + 1 atoms.
AtomExample(bsz) ==
    [a \in 0..((bsz * (bsz + 1)) \div 2 - 1) |->
        CHOOSE i \in 0..(bsz - 1) :
            (i * (i + 1)) \div 2 <= a /\ a < ((i + 1) * (i + 2)) \div 2]

\* The batch of the examples kinds[1], kinds[2], ...; the targets are zero.
MakeBatch(kinds) ==
    LET bsz == Len(kinds)
        t == Len(TaskNames)
        batch_idx == AtomExample(bsz)
    IN  [batch |-> batch_idx,
         task_idx |-> [i \in 0..(bsz - 1) |-> kinds[i + 1].task_idx],
         task_mask |-> [p \in Idx(bsz, t) |-> kinds[p[1] + 1].row[p[2]]],
         energy_onehot |-> [p \in Idx(bsz, t) |-> R(0)],
         forces_onehot |-> [p \in (DOMAIN batch_idx) \X (0..(t - 1)) |->
                               <<R(0), R(0), R(0)>>]]

\* The merged outputs of the model on a batch: every entry has a value of
\* its own, 1 + row * t + task.
MakeOutputs(batch) ==
    LET t == Len(TaskNames)
        code(p) == 1 + p[1] * t + p[2]
    IN  [x \in Targets |->
            IF x = "energy"
            THEN [p \in DOMAIN batch.task_mask |-> R(code(p))]
            ELSE [p \in DOMAIN batch.forces_onehot |->
                     <<R(code(p)), R(0), R(-code(p))>>]]

\* The batches of 1..n examples of these kinds.
Batches(Kinds, n) ==
    UNION {{MakeBatch(kinds) : kinds \in [1..bsz -> Kinds]} : bsz \in 1..n}

TrainBatches == Batches(TrainKinds, MaxBsz)

\* The validation loader delivers one example at a time.
ValBatches == Batches(ValKinds, 1)

\* The levels a configuration may declare for forces; "edge" is none that
\* _compute_metrics knows.
ForcesLevels == {"atom", "edge"}

PrintEvery == {1, 2, 3}

InitMetrics ==
    /\ \E level \in ForcesLevels, print_every \in PrintEvery :
          LET fresh == [task_idx \in 0..(Len(TaskNames) - 1) |->
                           MeanAbsoluteError]
          IN  self = [num_tasks |-> Len(TaskNames),
                      tasks |-> [k \in 1..Len(TaskNames) |->
                                    [idx |-> k - 1, name |-> TaskNames[k]]],
                      typed_output_targets |->
                          [OutputTargets(FALSE) EXCEPT !["forces"].level = level],
                      normalizer |->
                          [x \in Targets |->
                              IF x = "energy" THEN [mean |-> R(1), std |-> R(2)]
                              ELSE [mean |-> R(0), std |-> R(1)]],
                      config |-> [cmd |-> [print_every |-> print_every]],
                      training |-> TRUE,
                      step |-> 0,
                      train_per_task_energy_maes |-> fresh,
                      val_per_task_energy_maes |-> fresh,
                      train_per_task_force_maes |-> fresh,
                      val_per_task_force_maes |-> fresh]
    /\ args = [fn |-> "none"]
    /\ ret = NoRet
    /\ log = <<>>
    /\ pc = "train"

\* One iteration of the training loop: the model in train mode, the step
\* counted, _compute_metrics called on the batch.
TrainBatch ==
    /\ pc = "train"
    /\ self.step < MaxStep
    /\ \E batch \in TrainBatches,
          slf \in {[self EXCEPT !.training = TRUE, !.step = @ + 1]} :
          \E outputs \in {MakeOutputs(batch)} :
          \E r \in {_compute_metrics(slf, outputs, batch, [x \in {} |-> R(0)])} :
              /\ self' = r.self
              /\ ret' = r.ret
              /\ args' = [fn |-> "_compute_metrics", batch |-> batch,
                          outputs |-> outputs, before |-> slf,
                          aggregated_outputs |-> r.aggregated_outputs,
                          metrics |-> [x \in {} |-> R(0)]]
              /\ pc' = IF r.ret.kind = "raise" THEN "raised" ELSE "train"
    /\ UNCHANGED log

\* The splits validate() is still to be called on at the end of the epoch:
\* "val", then "test".
SplitsLeft ==
    IF args.fn # "validate" THEN {"val"}
    ELSE IF args.split = "val" THEN {"test"}
    ELSE {}

\* At the end of the epoch validate(split) is called and enters the
\* validation loop of the base trainer: the model in eval mode, no batch fed
\* yet.
ValidateBegin ==
    /\ pc = "train"
    /\ self.step = MaxStep
    /\ \E split \in SplitsLeft :
          args' = [fn |-> "validate", split |-> split, before |-> self,
                   fed |-> <<>>, metrics |-> [x \in {} |-> R(0)]]
    /\ self' = [self EXCEPT !.training = FALSE]
    /\ ret' = NoRet
    /\ pc' = "validate"
    /\ UNCHANGED log

\* The local metrics of the validation loop: empty at first, then what the
\* last call of _compute_metrics returned.
RunningMetrics == IF args.fn = "validate" THEN args.metrics ELSE ret.value

\* One iteration of the validation loop: _compute_metrics called on the
\* batch with the running metrics.
ValidateBatch ==
    /\ pc = "validate"
    /\ Len(args.fed) < MaxValBatches
    /\ \E batch \in ValBatches :
          \E outputs \in {MakeOutputs(batch)} :
          \E r \in {_compute_metrics(self, outputs, batch, RunningMetrics)} :
              /\ self' = r.self
              /\ ret' = r.ret
              /\ args' = [fn |-> "_compute_metrics", split |-> args.split,
                          batch |-> batch, outputs |-> outputs,
                          before |-> self,
                          aggregated_outputs |-> r.aggregated_outputs,
                          fed |-> Append(args.fed, batch),
                          metrics |-> RunningMetrics]
              /\ pc' = IF r.ret.kind = "raise" THEN "raised" ELSE "validate"
    /\ UNCHANGED log

\* The validation loop is over: validate() reports the per-task metrics and
\* returns.
ValidateEnd ==
    /\ pc = "validate"
    /\ \E r \in {report_from(self, 0, RunningMetrics)} :
          /\ self' = r.self
          /\ ret' = r.ret
    /\ args' = [fn |-> "validate", split |-> args.split, before |-> self,
                fed |-> args.fed, metrics |-> RunningMetrics]
    /\ pc' = "train"
    /\ UNCHANGED log

NextMetrics ==
    \/ TrainBatch
    \/ ValidateBegin
    \/ ValidateBatch
    \/ ValidateEnd

SpecMetrics == InitMetrics /\ [][NextMetrics]_vars

(***************************************************************************)
(* Properties of the metric tracker.                                        *)
(***************************************************************************)
TrainFamilies == {"train_per_task_energy_maes", "train_per_task_force_maes"}

ValFamilies == {"val_per_task_energy_maes", "val_per_task_force_maes"}

\* The last step was a call of _compute_metrics in train mode, in eval mode.
TrainCall == args.fn = "_compute_metrics" /\ args.before.training

EvalCall == args.fn = "_compute_metrics" /\ ~args.before.training

\* The last step was the return of validate().
Validated == args.fn = "validate" /\ ret.kind = "return"

\* Every accumulator of these families is in the state of a fresh metric.
Empty(slf, families) ==
    \A f \in families : \A t \in 0..(slf.num_tasks - 1) :
        slf[f][t] = MeanAbsoluteError

\* x in original units.
Denorm(target_name, x) ==
    RAdd(RMul(x, self.normalizer[target_name].std),
         self.normalizer[target_name].mean)

\* The absolute errors of a batch that belong to task t: of the energy, one
\* per active (example, task column) of the examples of task t; of the
\* forces, three per active (atom, task column) of the atoms of those
\* examples.  A function from the entries to the errors.
EnergyErrors(batch, t) ==
    LET outputs == MakeOutputs(batch)
    IN  [p \in {q \in DOMAIN batch.task_mask :
                    batch.task_mask[q] /\ batch.task_idx[q[1]] = t} |->
            RAbs(RSub(Denorm("energy", outputs["energy"][p]),
                      Denorm("energy", batch.energy_onehot[p])))]

ForcesErrors(batch, t) ==
    LET outputs == MakeOutputs(batch)
        example(q) == batch.batch[q[1]]
    IN  [p \in {q \in (DOMAIN batch.forces_onehot) \X (1..3) :
                    /\ batch.task_mask[<<example(q[1]), q[1][2]>>]
                    /\ batch.task_idx[example(q[1])] = t} |->
            RAbs(RSub(Denorm("forces", outputs["forces"][p[1]][p[2]]),
                      Denorm("forces", batch.forces_onehot[p[1]][p[2]])))]

Errors(batch, t, family) ==
    IF family \in {"train_per_task_energy_maes", "val_per_task_energy_maes"}
    THEN EnergyErrors(batch, t)
    ELSE ForcesErrors(batch, t)

\* The metric state that accumulates the errors of task t over these batches
\* and nothing else.
RECURSIVE Accumulated(_, _, _)
Accumulated(batches, t, family) ==
    IF batches = <<>> THEN MeanAbsoluteError
    ELSE LET rest == Accumulated(Tail(batches), t, family)
             err == Errors(Head(batches), t, family)
         IN  [sum_abs_error |-> RAdd(rest.sum_abs_error, RSum(err, DOMAIN err)),
              total |-> rest.total + Cardinality(DOMAIN err)]

\* The key validate() reports an accumulator under.
ReportKey(t, family) ==
    "task_" \o ToString(t) \o
        (IF family = "val_per_task_energy_maes" THEN "_energy_mae"
         ELSE "_forces_mae")

\* C11: metric reset isolation.  When validate() has returned, every
\* validation accumulator (energy and forces, every task index) is empty, and
\* the value a pass reports for a task is the mean absolute error over the
\* batches fed during that pass alone, whatever earlier passes were fed.
C11_ResetIsolation ==
    Validated =>
        /\ Empty(self, ValFamilies)
        /\ \A f \in ValFamilies : \A t \in 0..(self.num_tasks - 1) :
              LET acc == Accumulated(args.fed, t, f)
              IN  ret.value[ReportKey(t, f)] =
                      RDiv(acc.sum_abs_error, R(acc.total))

\* The second pass of a run has returned: it was fed one batch for task 0,
\* as the first pass was or was not, and reports that batch's error.
C11_Witness ==
    /\ Validated
    /\ args.split = "test"
    /\ Len(args.fed) = 1
    /\ args.fed[1].task_idx[0] = 0
    /\ args.fed[1].task_mask[<<0, 0>>] /\ ~args.fed[1].task_mask[<<0, 1>>]
    /\ ret.value["task_0_energy_mae"] = R(2)
    /\ IsNaN(ret.value["task_1_energy_mae"])
    /\ Empty(self, ValFamilies)

\* C12: within a validation pass no validation accumulator is reset between
\* batches: inside the loop every validation accumulator holds everything the
\* pass has fed so far, an eval-mode call of _compute_metrics only adds its
\* batch, and nothing is reported yet; after the loop validate() reports,
\* for every task index (energy and forces, updated in the pass or not), the
\* value accumulated before the reset, and leaves the accumulator reset.
C12_NoResetWithinPass ==
    /\ pc = "validate" =>
          \A f \in ValFamilies : \A t \in 0..(self.num_tasks - 1) :
              /\ self[f][t] = Accumulated(args.fed, t, f)
              /\ ReportKey(t, f) \notin DOMAIN RunningMetrics
    /\ (EvalCall /\ ret.kind = "return") =>
          \A f \in ValFamilies : \A t \in 0..(self.num_tasks - 1) :
              LET err == Errors(args.batch, t, f)
              IN  /\ self[f][t].total =
                        args.before[f][t].total + Cardinality(DOMAIN err)
                  /\ self[f][t].sum_abs_error =
                        RAdd(args.before[f][t].sum_abs_error,
                             RSum(err, DOMAIN err))
    /\ Validated =>
          \A f \in ValFamilies : \A t \in 0..(self.num_tasks - 1) :
              /\ ReportKey(t, f) \in DOMAIN ret.value
              /\ ret.value[ReportKey(t, f)] =
                    RDiv(args.before[f][t].sum_abs_error,
                         R(args.before[f][t].total))
              /\ args.before[f][t] = Accumulated(args.fed, t, f)
              /\ self[f][t] = MeanAbsoluteError

\* A pass of two batches, both for task 0, has been reported: the accumulator
\* of task 0 held both batches when it was read, that of task 1 nothing.
C12_Witness ==
    /\ Validated
    /\ Len(args.fed) = 2
    /\ args.before.val_per_task_energy_maes[0] =
          [sum_abs_error |-> R(4), total |-> 2]
    /\ args.before.val_per_task_energy_maes[1] = MeanAbsoluteError
    /\ ret.value["task_0_energy_mae"] = R(2)
    /\ IsNaN(ret.value["task_1_forces_mae"])
    /\ self.val_per_task_energy_maes[0] = MeanAbsoluteError

\* What the call for this batch reports for task t under its name: the mean
\* absolute error of the batch alone.
BatchKey(t, family) ==
    TaskNames[t + 1] \o
        (IF family \in {"train_per_task_energy_maes", "val_per_task_energy_maes"}
         THEN "_energy_mae" ELSE "_forces_mae")

BatchMae(batch, t, family) ==
    LET err == Errors(batch, t, family)
    IN  RDiv(RSum(err, DOMAIN err), R(Cardinality(DOMAIN err)))

\* The accumulator acc with the errors of task t in the batch added, once.
Updated(acc, batch, t, family) ==
    LET err == Errors(batch, t, family)
    IN  [sum_abs_error |-> RAdd(acc.sum_abs_error, RSum(err, DOMAIN err)),
         total |-> acc.total + Cardinality(DOMAIN err)]

\* The step of the call is a multiple of the print interval.
Qualifying == args.before.step % args.before.config.cmd.print_every = 0

\* C13: a training-mode call of _compute_metrics that returns leaves every
\* training accumulator (energy and forces, every task index) empty when the
\* step is a multiple of print_every, and otherwise leaves each holding what
\* it held before plus the batch; in both cases the metrics returned for a
\* task with errors in the batch are the mean absolute errors of that batch.
C13_TrainResetOnPrintEvery ==
    (TrainCall /\ ret.kind = "return") =>
        \A f \in TrainFamilies : \A t \in 0..(self.num_tasks - 1) :
            /\ Qualifying => self[f][t] = MeanAbsoluteError
            /\ ~Qualifying =>
                  self[f][t] = Updated(args.before[f][t], args.batch, t, f)
            /\ DOMAIN Errors(args.batch, t, f) # {} =>
                  /\ BatchKey(t, f) \in DOMAIN ret.value
                  /\ ret.value[BatchKey(t, f)] = BatchMae(args.batch, t, f)

\* The second step with print_every 2: the accumulator of task 0 held the
\* first batch, the second batch has an example of task 0 and none of task 1,
\* everything is empty afterwards and the error of the batch is returned.
C13_Witness ==
    /\ TrainCall /\ ret.kind = "return"
    /\ args.before.step = 2 /\ args.before.config.cmd.print_every = 2
    /\ args.before.train_per_task_energy_maes[0].total = 1
    /\ args.before.train_per_task_force_maes[1].total > 0
    /\ \A i \in DOMAIN args.batch.task_idx : args.batch.task_idx[i] = 0
    /\ Empty(self, TrainFamilies)
    /\ ret.value["oc20_energy_mae"] = R(2)
    /\ "ani1x_energy_mae" \notin DOMAIN ret.value

\* The families a call in this mode works on.
FamiliesOf(training) == IF training THEN TrainFamilies ELSE ValFamilies

\* C14: the four families are separate, one accumulator per task index: a
\* training-mode call of _compute_metrics leaves the validation accumulators
\* as they were, an eval-mode call and validate() leave the training
\* accumulators as they were, and a call that does not reset leaves the
\* accumulators of every task without errors in the batch as they were,
\* whatever it adds for the other tasks.
C14_FamiliesIndependent ==
    /\ \A f \in TrainFamilies \cup ValFamilies :
          DOMAIN self[f] = 0..(self.num_tasks - 1)
    /\ TrainCall => \A f \in ValFamilies : self[f] = args.before[f]
    /\ (EvalCall \/ args.fn = "validate") =>
          \A f \in TrainFamilies : self[f] = args.before[f]
    /\ (args.fn = "_compute_metrics" /\ ~(TrainCall /\ Qualifying)) =>
          \A f \in FamiliesOf(args.before.training) :
              \A j \in 0..(self.num_tasks - 1) :
                  DOMAIN Errors(args.batch, j, f) = {} =>
                      self[f][j] = args.before[f][j]

\* An eval-mode call on a batch for task 0, when the training accumulators
\* and the validation accumulators of task 1 already hold something: only
\* the validation accumulators of task 0 have changed.
C14_Witness ==
    /\ EvalCall /\ ret.kind = "return"
    /\ args.before.train_per_task_energy_maes[0].total > 0
    /\ args.before.train_per_task_force_maes[1].total > 0
    /\ args.before.val_per_task_energy_maes[1].total > 0
    /\ args.before.val_per_task_force_maes[1].total > 0
    /\ self.val_per_task_energy_maes[0] # args.before.val_per_task_energy_maes[0]
    /\ self.val_per_task_force_maes[0] # args.before.val_per_task_force_maes[0]
    /\ self.val_per_task_energy_maes[1] = args.before.val_per_task_energy_maes[1]
    /\ self.val_per_task_force_maes[1] = args.before.val_per_task_force_maes[1]
    /\ \A f \in TrainFamilies : self[f] = args.before[f]

\* Every example of the batch has exactly one true entry in its task_mask
\* row; the task of that entry.
SingleActive(batch) ==
    \A i \in DOMAIN batch.task_idx :
        Cardinality({c \in Cols(batch.task_mask) : batch.task_mask[<<i, c>>]}) = 1

ActiveTask(batch, i) ==
    CHOOSE c \in Cols(batch.task_mask) : batch.task_mask[<<i, c>>]

\* C15: in _compute_metrics, on a batch whose examples each have exactly one
\* active task, the aggregated energy has one value per example, in the order
\* of the examples, the example's output at its active task, and the
\* aggregated forces have one vector per atom, in the order of the atoms, the
\* atom's output at the active task of its example; with a target whose
\* level is neither "system" nor "atom" the call raises NotImplementedError.
C15_AggregatedOutputs ==
    args.fn = "_compute_metrics" =>
        LET batch == args.batch
            outputs == args.outputs
            aggregated_outputs == args.aggregated_outputs
            levels == {args.before.typed_output_targets[x].level :
                          x \in DOMAIN outputs}
        IN  /\ ~(levels \subseteq {"system", "atom"}) =>
                  ret = Raise("NotImplementedError")
            /\ (levels \subseteq {"system", "atom"} /\ SingleActive(batch)) =>
                  /\ DOMAIN aggregated_outputs = DOMAIN outputs
                  /\ aggregated_outputs["energy"] =
                        [i \in 1..Cardinality(DOMAIN batch.task_idx) |->
                            outputs["energy"][<<i - 1, ActiveTask(batch, i - 1)>>]]
                  /\ aggregated_outputs["forces"] =
                        [a \in 1..Cardinality(DOMAIN batch.batch) |->
                            outputs["forces"][
                                <<a - 1, ActiveTask(batch, batch.batch[a - 1])>>]]

\* A batch of an example of task 1 (one atom) and an example of task 0 (two
\* atoms): the energies are those of (0, 1) and (1, 0), the forces those of
\* atom 0 at task 1 and of atoms 1 and 2 at task 0.
C15_Witness ==
    /\ TrainCall /\ ret.kind = "return"
    /\ SingleActive(args.batch)
    /\ DOMAIN args.batch.task_idx = {0, 1}
    /\ args.batch.task_mask[<<0, 1>>] /\ args.batch.task_mask[<<1, 0>>]
    /\ args.aggregated_outputs["energy"] = <<R(2), R(3)>>
    /\ args.aggregated_outputs["forces"] =
          << <<R(2), R(0), R(-2)>>, <<R(3), R(0), R(-3)>>, <<R(5), R(0), R(-5)>> >>

\* The batch has an example of task t with a true task_mask entry.
HasActive(batch, t) ==
    \E i \in DOMAIN batch.task_idx :
        /\ batch.task_idx[i] = t
        /\ \E c \in Cols(batch.task_mask) : batch.task_mask[<<i, c>>]

\* C17: a call of _compute_metrics that returns has, through
\* _compute_per_task_metrics, added to the accumulators of task t (of the
\* families of its mode) the errors of the examples and atoms of task t in
\* the batch, once, when the batch has an example of task t with a true
\* task_mask entry, and reports their mean under the task's name; otherwise
\* the accumulators of task t are as they were and the metrics carry nothing
\* for the task but what was passed in.  (The accumulators are compared on
\* the calls that do not reset them afterwards.)
C17_PerTaskUpdate ==
    (args.fn = "_compute_metrics" /\ ret.kind = "return") =>
        \A f \in FamiliesOf(args.before.training) :
            \A t \in 0..(self.num_tasks - 1) :
                IF HasActive(args.batch, t)
                THEN /\ ~(TrainCall /\ Qualifying) =>
                          /\ self[f][t] =
                                Updated(args.before[f][t], args.batch, t, f)
                          /\ self[f][t].total > args.before[f][t].total
                     /\ BatchKey(t, f) \in DOMAIN ret.value
                     /\ ret.value[BatchKey(t, f)] = BatchMae(args.batch, t, f)
                ELSE /\ ~(TrainCall /\ Qualifying) =>
                          self[f][t] = args.before[f][t]
                     /\ BatchKey(t, f) \in DOMAIN ret.value =>
                          /\ BatchKey(t, f) \in DOMAIN args.metrics
                          /\ ret.value[BatchKey(t, f)] =
                                args.metrics[BatchKey(t, f)]

\* An eval-mode call on one example of task 0 whose task_mask row is true in
\* both columns: task 0 has taken both energies, task 1 nothing.
C17_Witness ==
    /\ EvalCall /\ ret.kind = "return"
    /\ DOMAIN args.batch.task_idx = {0}
    /\ args.batch.task_idx[0] = 0
    /\ args.batch.task_mask[<<0, 0>>] /\ args.batch.task_mask[<<0, 1>>]
    /\ self.val_per_task_energy_maes[0].total =
          args.before.val_per_task_energy_maes[0].total + 2
    /\ self.val_per_task_energy_maes[1] = args.before.val_per_task_energy_maes[1]
    /\ self.val_per_task_force_maes[1] = args.before.val_per_task_force_maes[1]
    /\ ret.value["oc20_energy_mae"] = R(3)
    /\ "ani1x_energy_mae" \notin DOMAIN ret.value
    /\ "ani1x_forces_mae" \notin DOMAIN ret.value

=============================================================================
